---- MODULE Spec2Model ----
(***************************************************************************)
(* Design-pattern demonstrations of the repository, as one state machine.  *)
(* Every source file is a self-contained program; `program` says which one *)
(* is running, and the objects it has constructed live in `heap` (object   *)
(* id = position in the heap, in construction order).                      *)
(*                                                                         *)
(* Methods are operators over the heap, written class by class as in the   *)
(* source, with dynamic dispatch on the receiver's class.  A method yields *)
(* [ret, trace]: its return value and the events it caused, in order       *)
(* (dispatched calls, returns, printed lines).                             *)
(*                                                                         *)
(* Three specifications share the variables: Spec runs the decorator,     *)
(* factory, builder and payment programs, SingletonSpec the threads that   *)
(* call Singleton(), and PatternsSpec the prototype, GUI factory,          *)
(* composite and remote control programs.                                  *)
(*                                                                         *)
(* Printed text: the emoji that open some of the source's printed lines    *)
(* are left out of the string literals (the parser reads ASCII and a few   *)
(* symbols only); the rest of each line is verbatim.                       *)
(***************************************************************************)
EXTENDS Integers, Sequences, FiniteSets, TLC

VARIABLES
    program,    \* which source file's program is running
    heap,       \* the objects constructed so far
    call,       \* the client's most recent operation call, with its receiver
                \* and argument
    result,     \* what that call yielded: [ret, trace]
    console,    \* the lines printed: by the most recent operation call on a chain,
                \* or since the start of a program that takes one request
    input,      \* what the user typed at the program's prompts
    pc,         \* the position of the program's client code (per thread in
                \* SingletonSpec)
    locals,     \* the local variables the client code has bound (for a decorator
                \* program: the argument of the latest decorator constructor)
    raised,     \* the exception most recently raised
    returned    \* the object the selector returned (0: nothing returned)

vars == <<program, heap, call, result, console, input, pc, locals, raised, returned>>

client == <<input, pc, locals, raised, returned>>

(* Bounds of the model *)

(* Objects of a decorator or GUI program *)
MaxObjects == 4

(* Build calls on one RobotDirector *)
MaxBuilds == 3

(* Threads calling Singleton() *)
MaxThreads == 2

(* Singleton() calls per thread *)
MaxCalls == 2

(* Clones made by a prototype program *)
MaxClones == 2

(* Nodes of a composite program *)
MaxNodes == 2

(* Entries in the lists of its composites *)
MaxEdges == 2

(* Nested calls the interpreter allows *)
RecursionLimit == 6

(* Volume / channel presses away from a starting value *)
MaxSteps == 2

Messages == {"Hello, User !!", "Hi"}

Programs == {"coffee", "notification", "factory", "robot", "sqlquery", "payment"}

(* The strings typed at a selection prompt: every recognised one and some others *)
Selections ==
    {"email", "sms", "push", "simple", "ai_robot", "user", "product",
     "UPI", "CreditCard", "PayPal", "EMAIL", "fax", ""}

Gateways == {"HDFC", "SBI", "ICICI"}

Amounts == {100, 250}

NoInput == [selection |-> "", gateway |-> "", amount |-> 0]

NoException == [type |-> "None", msg |-> ""]
ValueError(msg) == [type |-> "ValueError", msg |-> msg]
AttributeError(msg) == [type |-> "AttributeError", msg |-> msg]
TypeError(msg) == [type |-> "TypeError", msg |-> msg]
RecursionError(msg) == [type |-> "RecursionError", msg |-> msg]

(* A method that changes objects yields the heap it leaves and its return value *)
Outcome(h, ret) == [heap |-> h, ret |-> ret, raised |-> NoException]
Raise(h, exception) == [heap |-> h, ret |-> 0, raised |-> exception]

NoCall == [method |-> "none", self |-> 0, message |-> ""]
NoResult == [ret |-> "None", trace |-> <<>>]

(* Events of a trace *)
CallEv(self, method) == [ev |-> "call", obj |-> self, text |-> method]
ReturnEv(self, method) == [ev |-> "return", obj |-> self, text |-> method]
PrintEv(self, line) == [ev |-> "print", obj |-> self, text |-> line]

RECURSIVE PrintedFrom(_, _)
PrintedFrom(trace, i) ==
    IF i > Len(trace) THEN <<>>
    ELSE IF trace[i].ev = "print"
         THEN <<trace[i].text>> \o PrintedFrom(trace, i + 1)
         ELSE PrintedFrom(trace, i + 1)

(* The lines a trace printed, in order *)
Printed(trace) == PrintedFrom(trace, 1)

(***************************************************************************)
(* structural/decorator/Eg1_Coffee_Shop.py                                 *)
(***************************************************************************)
BeverageDecorators == {"AddonDecorator", "Milk", "Sugar", "Caramel"}

RECURSIVE cost(_, _), description(_, _)

Coffee_cost(h, self) == [ret |-> 50, trace |-> <<>>]

Coffee_description_numbered(h, self) ==
    [ret |-> "Plain Coffee #" \o ToString(self), trace |-> <<>>]

Coffee_description(h, self) == [ret |-> "Plain Coffee", trace |-> <<>>]

AddonDecorator_init_wraps_first(h, cls, beverage) ==
    Append(h, [cls |-> cls, beverage |-> 1])

AddonDecorator_init_selfwrap(h, cls, beverage) ==
    Append(h, [cls |-> cls, beverage |-> Len(h) + 1])

AddonDecorator_init(h, cls, beverage) ==
    Append(h, [cls |-> cls, beverage |-> beverage])

AddonDecorator_cost(h, self) == cost(h, h[self].beverage)

AddonDecorator_description(h, self) == description(h, h[self].beverage)

Milk_cost_over_base(h, self) ==
    LET r == cost(h, h[self].beverage)
    IN  [ret |-> 50 + 10, trace |-> r.trace]

Milk_cost(h, self) ==
    LET r == cost(h, h[self].beverage)
    IN  [ret |-> r.ret + 10, trace |-> r.trace]

Milk_description(h, self) ==
    LET r == description(h, h[self].beverage)
    IN  [ret |-> r.ret \o " + Milk", trace |-> r.trace]

Sugar_cost(h, self) ==
    LET r == cost(h, h[self].beverage)
    IN  [ret |-> r.ret + 5, trace |-> r.trace]

Sugar_description_prepends(h, self) ==
    LET r == description(h, h[self].beverage)
    IN  [ret |-> " + Sugar" \o r.ret, trace |-> r.trace]

Sugar_description(h, self) ==
    LET r == description(h, h[self].beverage)
    IN  [ret |-> r.ret \o " + Sugar", trace |-> r.trace]

Caramel_cost_copied(h, self) ==
    LET r == cost(h, h[self].beverage)
    IN  [ret |-> r.ret + 10, trace |-> r.trace]

Caramel_cost(h, self) ==
    LET r == cost(h, h[self].beverage)
    IN  [ret |-> r.ret + 20, trace |-> r.trace]

Caramel_description_asks_twice(h, self) ==
    LET r == description(h, h[self].beverage)
    IN  [ret |-> r.ret \o " + Caramel", trace |-> r.trace \o r.trace]

Caramel_description(h, self) ==
    LET r == description(h, h[self].beverage)
    IN  [ret |-> r.ret \o " + Caramel", trace |-> r.trace]

(* self.cost(): the method of self's class runs, between a call and a return *)
cost(h, self) ==
    LET r == CASE h[self].cls = "Coffee" -> Coffee_cost(h, self)
               [] h[self].cls = "AddonDecorator" -> AddonDecorator_cost(h, self)
               [] h[self].cls = "Milk" -> Milk_cost(h, self)
               [] h[self].cls = "Sugar" -> Sugar_cost(h, self)
               [] h[self].cls = "Caramel" -> Caramel_cost(h, self)
    IN  [ret |-> r.ret,
         trace |-> <<CallEv(self, "cost")>> \o r.trace \o <<ReturnEv(self, "cost")>>]

description(h, self) ==
    LET r == CASE h[self].cls = "Coffee" -> Coffee_description(h, self)
               [] h[self].cls = "AddonDecorator" -> AddonDecorator_description(h, self)
               [] h[self].cls = "Milk" -> Milk_description(h, self)
               [] h[self].cls = "Sugar" -> Sugar_description(h, self)
               [] h[self].cls = "Caramel" -> Caramel_description(h, self)
    IN  [ret |-> r.ret,
         trace |-> <<CallEv(self, "description")>> \o r.trace
                   \o <<ReturnEv(self, "description")>>]

(* coffee = Coffee() *)
NewCoffee ==
    /\ program = "coffee"
    /\ Len(heap) < MaxObjects
    /\ heap' = Append(heap, [cls |-> "Coffee"])
    /\ UNCHANGED <<program, call, result, console, client>>

(* D(b) for a decorator class D and a beverage b the client holds *)
WrapBeverage ==
    /\ program = "coffee"
    /\ Len(heap) < MaxObjects
    /\ \E cls \in BeverageDecorators, b \in DOMAIN heap :
          /\ heap' = AddonDecorator_init(heap, cls, b)
          /\ locals' = [beverage |-> b]
    /\ UNCHANGED <<program, call, result, console, input, pc, raised, returned>>

(* A cost() that marks the link it was asked on as charged *)
CallCost_marks ==
    /\ program = "coffee"
    /\ \E b \in DOMAIN heap :
          /\ call' = [method |-> "cost", self |-> b, message |-> ""]
          /\ result' = cost(heap, b)
          /\ heap' = [heap EXCEPT ![b].cls = "AddonDecorator"]
    /\ console' = Printed(result'.trace)
    /\ UNCHANGED <<program, client>>

(* b.cost() *)
CallCost ==
    /\ program = "coffee"
    /\ \E b \in DOMAIN heap :
          /\ call' = [method |-> "cost", self |-> b, message |-> ""]
          /\ result' = cost(heap, b)
    /\ console' = Printed(result'.trace)
    /\ UNCHANGED <<program, heap, client>>

(* b.description() *)
CallDescription ==
    /\ program = "coffee"
    /\ \E b \in DOMAIN heap :
          /\ call' = [method |-> "description", self |-> b, message |-> ""]
          /\ result' = description(heap, b)
    /\ console' = Printed(result'.trace)
    /\ UNCHANGED <<program, heap, client>>

(***************************************************************************)
(* structural/decorator/Eg2_Notification_System.py                         *)
(***************************************************************************)
NotifierDecorators ==
    {"NotificationDecorator", "EmailNotifier", "SMSNotifier", "PushNotifier"}

RECURSIVE send(_, _, _)

BasicNotifier_send(h, self, message) ==
    [ret |-> "None",
     trace |-> <<PrintEv(self, "Basic Notificatio: " \o message)>>]

NotificationDecorator_init_stamps(h, cls, notifier) ==
    Append([h EXCEPT ![notifier].cls = cls], [cls |-> cls, notifier |-> notifier])

NotificationDecorator_init(h, cls, notifier) ==
    Append(h, [cls |-> cls, notifier |-> notifier])

NotificationDecorator_send_twice(h, self, message) ==
    LET r == send(h, h[self].notifier, message)
    IN  [ret |-> "None", trace |-> r.trace \o r.trace]

NotificationDecorator_send(h, self, message) ==
    LET r == send(h, h[self].notifier, message)
    IN  [ret |-> "None", trace |-> r.trace]

EmailNotifier_send_prints_first(h, self, message) ==
    LET r == NotificationDecorator_send(h, self, message)
    IN  [ret |-> "None",
         trace |-> <<PrintEv(self, "Sending Email: " \o message)>> \o r.trace]

EmailNotifier_send(h, self, message) ==
    LET r == NotificationDecorator_send(h, self, message)
    IN  [ret |-> "None",
         trace |-> r.trace \o <<PrintEv(self, "Sending Email: " \o message)>>]

SMSNotifier_send(h, self, message) ==
    LET r == NotificationDecorator_send(h, self, message)
    IN  [ret |-> "None",
         trace |-> r.trace \o <<PrintEv(self, "Sending SMS: " \o message)>>]

PushNotifier_send(h, self, message) ==
    LET r == NotificationDecorator_send(h, self, message)
    IN  [ret |-> "None",
         trace |-> r.trace
                   \o <<PrintEv(self, "Sending Push Notification: " \o message)>>]

send(h, self, message) ==
    LET r == CASE h[self].cls = "BasicNotifier" -> BasicNotifier_send(h, self, message)
               [] h[self].cls = "NotificationDecorator" ->
                      NotificationDecorator_send(h, self, message)
               [] h[self].cls = "EmailNotifier" -> EmailNotifier_send(h, self, message)
               [] h[self].cls = "SMSNotifier" -> SMSNotifier_send(h, self, message)
               [] h[self].cls = "PushNotifier" -> PushNotifier_send(h, self, message)
    IN  [ret |-> r.ret,
         trace |-> <<CallEv(self, "send")>> \o r.trace \o <<ReturnEv(self, "send")>>]

(* notifier = BasicNotifier() *)
NewBasicNotifier ==
    /\ program = "notification"
    /\ Len(heap) < MaxObjects
    /\ heap' = Append(heap, [cls |-> "BasicNotifier"])
    /\ UNCHANGED <<program, call, result, console, client>>

(* D(n) for a decorator class D and a notifier n the client holds *)
WrapNotifier ==
    /\ program = "notification"
    /\ Len(heap) < MaxObjects
    /\ \E cls \in NotifierDecorators, n \in DOMAIN heap :
          /\ heap' = NotificationDecorator_init(heap, cls, n)
          /\ locals' = [notifier |-> n]
    /\ UNCHANGED <<program, call, result, console, input, pc, raised, returned>>

(* n.send(message) *)
CallSend ==
    /\ program = "notification"
    /\ \E n \in DOMAIN heap, message \in Messages :
          /\ call' = [method |-> "send", self |-> n, message |-> message]
          /\ result' = send(heap, n, message)
    /\ console' = Printed(result'.trace)
    /\ UNCHANGED <<program, heap, client>>

(***************************************************************************)
(* creational/factory.py                                                   *)
(***************************************************************************)
EmailNotification_notify(h, self, message) ==
    [ret |-> "None", trace |-> <<PrintEv(self, "Sending Email: " \o message)>>]

SMSNotification_notify(h, self, message) ==
    [ret |-> "None", trace |-> <<PrintEv(self, "Sending SMS: " \o message)>>]

PushNotification_notify(h, self, message) ==
    [ret |-> "None",
     trace |-> <<PrintEv(self, "Sending Push Notification: " \o message)>>]

notify(h, self, message) ==
    CASE h[self].cls = "EmailNotification" -> EmailNotification_notify(h, self, message)
      [] h[self].cls = "SMSNotification" -> SMSNotification_notify(h, self, message)
      [] h[self].cls = "PushNotification" -> PushNotification_notify(h, self, message)

NotificationFactories ==
    {"SMSNotificationFactory", "EmailNotificationFactory", "PushNotificationFactory"}

SMSNotificationFactory_create_notification(h, self) ==
    Outcome(Append(h, [cls |-> "SMSNotification"]), Len(h) + 1)

EmailNotificationFactory_create_notification(h, self) ==
    Outcome(Append(h, [cls |-> "EmailNotification"]), Len(h) + 1)

PushNotificationFactory_create_notification(h, self) ==
    Outcome(Append(h, [cls |-> "PushNotification"]), Len(h) + 1)

create_notification(h, self) ==
    CASE h[self].cls = "SMSNotificationFactory" ->
             SMSNotificationFactory_create_notification(h, self)
      [] h[self].cls = "EmailNotificationFactory" ->
             EmailNotificationFactory_create_notification(h, self)
      [] h[self].cls = "PushNotificationFactory" ->
             PushNotificationFactory_create_notification(h, self)

(* notification = self.create_notification(); notification.notify(message) *)
NotificationFactory_send_notification(h, self, message) ==
    LET c == create_notification(h, self)
    IN  [heap |-> c.heap, ret |-> "None", raised |-> NoException,
         trace |-> notify(c.heap, c.ret, message).trace]

(* obj.send_notification(message): the attribute exists on the creators only *)
send_notification(h, self, message) ==
    IF h[self].cls \in NotificationFactories
    THEN NotificationFactory_send_notification(h, self, message)
    ELSE [heap |-> h, ret |-> "None",
          raised |-> AttributeError("'" \o h[self].cls
                         \o "' object has no attribute 'send_notification'"),
          trace |-> <<>>]

get_notification_factory_defaults(h, notification_type) ==
    IF notification_type = "sms"
    THEN Outcome(Append(h, [cls |-> "SMSNotification"]), Len(h) + 1)
    ELSE IF notification_type = "push"
    THEN Outcome(Append(h, [cls |-> "PushNotification"]), Len(h) + 1)
    ELSE Outcome(Append(h, [cls |-> "EmailNotification"]), Len(h) + 1)

get_notification_factory(h, notification_type) ==
    IF notification_type = "email"
    THEN Outcome(Append(h, [cls |-> "EmailNotification"]), Len(h) + 1)
    ELSE IF notification_type = "sms"
    THEN Outcome(Append(h, [cls |-> "SMSNotification"]), Len(h) + 1)
    ELSE IF notification_type = "push"
    THEN Outcome(Append(h, [cls |-> "PushNotification"]), Len(h) + 1)
    ELSE Raise(h, ValueError("Invalid notification type"))

(* notification = get_notification_factory(notification_type), in the try *)
Factory_Select ==
    /\ program = "factory"
    /\ pc = "start"
    /\ LET r == get_notification_factory(heap, input.selection)
       IN  /\ heap' = r.heap
           /\ returned' = r.ret
           /\ raised' = r.raised
           /\ locals' = IF r.raised = NoException
                        THEN locals @@ ("notification" :> r.ret)
                        ELSE locals
           /\ pc' = IF r.raised = NoException THEN "notify" ELSE "except"
    /\ UNCHANGED <<program, call, result, console, input>>

(* notification.notify("Hello this is your notification") *)
Factory_Notify ==
    /\ program = "factory"
    /\ pc = "notify"
    /\ console' = console
           \o Printed(notify(heap, locals.notification,
                             "Hello this is your notification").trace)
    /\ pc' = "done"
    /\ UNCHANGED <<program, heap, call, result, input, locals, raised, returned>>

(* except Exception as e: print(f"Error : {e}") *)
Factory_Except ==
    /\ program = "factory"
    /\ pc = "except"
    /\ console' = console \o <<"Error : " \o raised.msg>>
    /\ pc' = "done"
    /\ UNCHANGED <<program, heap, call, result, input, locals, raised, returned>>

(***************************************************************************)
(* creational/Builder/Robot.py                                             *)
(***************************************************************************)
Robot_init(h) ==
    Append(h, [cls |-> "Robot", head |-> "None", arms |-> "None",
               legs |-> "None", ai_enable |-> "None"])

Robot_str(h, self) ==
    "Robot [Head : " \o h[self].head \o ", Arms : " \o h[self].arms
        \o ", Legs : " \o h[self].legs \o ", AI : " \o h[self].ai_enable \o "]"

(* The builder is object Len(h) + 1 and the Robot it makes is the next one *)
BasicRobotBuilder_init(h) ==
    Robot_init(Append(h, [cls |-> "BasicRobotBuilder", robot |-> Len(h) + 2]))

BasicRobotBuilder_set_head(h, self, head) ==
    Outcome([h EXCEPT ![h[self].robot].head = head], self)

BasicRobotBuilder_set_arms(h, self, arms) ==
    Outcome([h EXCEPT ![h[self].robot].arms = arms], self)

BasicRobotBuilder_set_legs(h, self, legs) ==
    Outcome([h EXCEPT ![h[self].robot].legs = legs], self)

BasicRobotBuilder_enable_ai(h, self) ==
    Outcome([h EXCEPT ![h[self].robot].ai_enable = "True"], self)

BasicRobotBuilder_build(h, self) == Outcome(h, h[self].robot)

RobotDirector_init(h, builder) ==
    Append(h, [cls |-> "RobotDirector", builder |-> builder])

RobotDirector_build_simple_robot(h, self) ==
    LET b == h[self].builder
        h1 == BasicRobotBuilder_set_head(h, b, "Metal Head").heap
        h2 == BasicRobotBuilder_set_arms(h1, b, "Basic Arms").heap
        h3 == BasicRobotBuilder_set_legs(h2, b, "Wheels").heap
    IN  BasicRobotBuilder_build(h3, b)

RobotDirector_build_ai_robot(h, self) ==
    LET b == h[self].builder
        h1 == BasicRobotBuilder_set_head(h, b, "Advanced Head").heap
        h2 == BasicRobotBuilder_set_arms(h1, b, "Strong Arms").heap
        h3 == BasicRobotBuilder_set_legs(h2, b, "Bipedal Legs").heap
        h4 == BasicRobotBuilder_enable_ai(h3, b).heap
    IN  BasicRobotBuilder_build(h4, b)

(* client_code: builder = BasicRobotBuilder() *)
Robot_NewBuilder ==
    /\ program = "robot"
    /\ pc = "start"
    /\ heap' = BasicRobotBuilder_init(heap)
    /\ locals' = locals @@ ("builder" :> Len(heap) + 1)
    /\ pc' = "director"
    /\ UNCHANGED <<program, call, result, console, input, raised, returned>>

(* client_code: director = RobotDirector(builder=builder) *)
Robot_NewDirector ==
    /\ program = "robot"
    /\ pc = "director"
    /\ heap' = RobotDirector_init(heap, locals.builder)
    /\ locals' = locals @@ ("director" :> Len(heap) + 1)
    /\ pc' = "select"
    /\ UNCHANGED <<program, call, result, console, input, raised, returned>>

(* The director's method that client_code calls for a recognised robot_type *)
DirectorMethod(robot_type) ==
    IF robot_type = "simple" THEN "build_simple_robot" ELSE "build_ai_robot"

(* director.<method>() *)
RobotDirector_call(h, self, method) ==
    IF method = "build_simple_robot"
    THEN RobotDirector_build_simple_robot(h, self)
    ELSE RobotDirector_build_ai_robot(h, self)

(* client_code: the if / elif / else on robot_type *)
Robot_client_code_select(h, director, robot_type) ==
    IF robot_type = "simple"
    THEN RobotDirector_build_simple_robot(h, director)
    ELSE IF robot_type = "ai_robot"
    THEN RobotDirector_build_ai_robot(h, director)
    ELSE Raise(h, ValueError("Unknown robot type given"))

Robot_Select ==
    /\ program = "robot"
    /\ pc = "select"
    /\ LET r == Robot_client_code_select(heap, locals.director, input.selection)
       IN  /\ heap' = r.heap
           /\ returned' = r.ret
           /\ raised' = r.raised
           /\ pc' = IF r.raised = NoException THEN "print" ELSE "done"
           /\ call' = IF r.raised = NoException
                      THEN [method |-> DirectorMethod(input.selection),
                            self |-> locals.director, message |-> ""]
                      ELSE call
    /\ UNCHANGED <<program, result, console, input, locals>>

(* __main__: print(robot) *)
Robot_Print ==
    /\ program = "robot"
    /\ pc = "print"
    /\ console' = console \o <<Robot_str(heap, returned)>>
    /\ pc' = "done"
    /\ UNCHANGED <<program, heap, call, result, input, locals, raised, returned>>

(* The builds made on the director so far *)
Builds(l) == IF "builds" \in DOMAIN l THEN l.builds ELSE 1

(* One more build on the director that client_code made *)
Robot_BuildAgain ==
    /\ program = "robot"
    /\ pc = "done"
    /\ raised = NoException
    /\ Builds(locals) < MaxBuilds
    /\ \E method \in {"build_simple_robot", "build_ai_robot"} :
          LET r == RobotDirector_call(heap, locals.director, method)
          IN  /\ heap' = r.heap
              /\ returned' = r.ret
              /\ call' = [method |-> method, self |-> locals.director, message |-> ""]
    /\ locals' = [builder |-> locals.builder, director |-> locals.director,
                  builds |-> Builds(locals) + 1]
    /\ UNCHANGED <<program, result, console, input, pc, raised>>

(***************************************************************************)
(* creational/Builder/SQLQuery.py                                          *)
(***************************************************************************)
RECURSIVE Join(_, _)
(* sep.join(strings) *)
Join(sep, strings) ==
    IF strings = <<>> THEN ""
    ELSE IF Len(strings) = 1 THEN strings[1]
    ELSE strings[1] \o sep \o Join(sep, Tail(strings))

SQLQuery_init(h) == Append(h, [cls |-> "SQLQuery", query |-> ""])

SQLQuery_str(h, self) == h[self].query

(* The builder is object Len(h) + 1 and the SQLQuery it makes is the next one *)
SQLConcreteBuilder_init(h) ==
    SQLQuery_init(Append(h, [cls |-> "SQLConcreteBuilder", query |-> Len(h) + 2]))

SQLConcreteBuilder_select(h, self, table, columns) ==
    LET col_str == Join(", ", columns)
    IN  Outcome([h EXCEPT ![h[self].query].query =
                     "SELECT " \o col_str \o " FROM " \o table], self)

SQLConcreteBuilder_where(h, self, condition) ==
    Outcome([h EXCEPT ![h[self].query].query = @ \o " WHERE " \o condition], self)

SQLConcreteBuilder_order_by(h, self, column, order) ==
    Outcome([h EXCEPT ![h[self].query].query =
                 @ \o " ORDER BY " \o column \o " " \o order], self)

SQLConcreteBuilder_limit(h, self, count) ==
    Outcome([h EXCEPT ![h[self].query].query = @ \o " LIMIT " \o ToString(count)],
            self)

SQLConcreteBuilder_build(h, self) == Outcome(h, h[self].query)

SQLQueryDirector_init(h, builder) ==
    Append(h, [cls |-> "SQLQueryDirector", builder |-> builder])

SQLQueryDirector_build_user_query(h, self) ==
    LET b == h[self].builder
        h1 == SQLConcreteBuilder_select(h, b, "users", <<"id", "name", "email">>).heap
        h2 == SQLConcreteBuilder_where(h1, b, "age > 18").heap
        h3 == SQLConcreteBuilder_order_by(h2, b, "name", "DESC").heap
    IN  SQLConcreteBuilder_build(h3, b)

SQLQueryDirector_build_product_query(h, self) ==
    LET b == h[self].builder
        h1 == SQLConcreteBuilder_select(h, b, "products",
                                        <<"id", "name", "price">>).heap
        h2 == SQLConcreteBuilder_where(h1, b, "price < 1000").heap
        h3 == SQLConcreteBuilder_limit(h2, b, 10).heap
    IN  SQLConcreteBuilder_build(h3, b)

(* client_code: builder = SQLConcreteBuilder() *)
SQL_NewBuilder ==
    /\ program = "sqlquery"
    /\ pc = "start"
    /\ heap' = SQLConcreteBuilder_init(heap)
    /\ locals' = locals @@ ("builder" :> Len(heap) + 1)
    /\ pc' = "director"
    /\ UNCHANGED <<program, call, result, console, input, raised, returned>>

(* client_code: director = SQLQueryDirector(builder=builder) *)
SQL_NewDirector ==
    /\ program = "sqlquery"
    /\ pc = "director"
    /\ heap' = SQLQueryDirector_init(heap, locals.builder)
    /\ locals' = locals @@ ("director" :> Len(heap) + 1)
    /\ pc' = "select"
    /\ UNCHANGED <<program, call, result, console, input, raised, returned>>

(* client_code: the if / elif / else on query_type *)
SQL_client_code_select_builds_first(h, director, query_type) ==
    LET user == SQLQueryDirector_build_user_query(h, director)
    IN  IF query_type = "user"
        THEN user
        ELSE IF query_type = "product"
        THEN SQLQueryDirector_build_product_query(h, director)
        ELSE Raise(user.heap, ValueError("Unknown query type given"))

SQL_client_code_select(h, director, query_type) ==
    IF query_type = "user"
    THEN SQLQueryDirector_build_user_query(h, director)
    ELSE IF query_type = "product"
    THEN SQLQueryDirector_build_product_query(h, director)
    ELSE Raise(h, ValueError("Unknown query type given"))

SQL_Select ==
    /\ program = "sqlquery"
    /\ pc = "select"
    /\ LET r == SQL_client_code_select(heap, locals.director, input.selection)
       IN  /\ heap' = r.heap
           /\ returned' = r.ret
           /\ raised' = r.raised
           /\ pc' = IF r.raised = NoException THEN "print" ELSE "done"
    /\ UNCHANGED <<program, call, result, console, input, locals>>

(* __main__: print(query) *)
SQL_Print ==
    /\ program = "sqlquery"
    /\ pc = "print"
    /\ console' = console \o <<SQLQuery_str(heap, returned)>>
    /\ pc' = "done"
    /\ UNCHANGED <<program, heap, call, result, input, locals, raised, returned>>

(***************************************************************************)
(* structural/bridge/Eg2_payment_system.py                                 *)
(***************************************************************************)
UPI_process(h, self, amount) ==
    [ret |-> "None",
     trace |-> <<PrintEv(self, "Processing UPI Payment of ₹" \o ToString(amount))>>]

CreditCard_process(h, self, amount) ==
    [ret |-> "None",
     trace |-> <<PrintEv(self, "Processing Credit Card Payment of ₹"
                                   \o ToString(amount))>>]

PayPal_process(h, self, amount) ==
    [ret |-> "None",
     trace |-> <<PrintEv(self, "Processing PayPal Payment ₹" \o ToString(amount))>>]

process(h, self, amount) ==
    CASE h[self].cls = "UPI" -> UPI_process(h, self, amount)
      [] h[self].cls = "CreditCard" -> CreditCard_process(h, self, amount)
      [] h[self].cls = "PayPal" -> PayPal_process(h, self, amount)

PaymentGateway_init(h, cls, payment_method) ==
    Append(h, [cls |-> cls, payment_method |-> payment_method])

PaymentGateway_make_payment(h, self, amount) ==
    [ret |-> "None",
     trace |-> <<PrintEv(self, "[Gateway] Initiating Payment of ₹" \o ToString(amount))>>
               \o process(h, h[self].payment_method, amount).trace]

HDFCBank_make_payment(h, self, amount) ==
    [ret |-> "None",
     trace |-> <<PrintEv(self, "[HDFC Bank] Authenticating Transaction...")>>
               \o PaymentGateway_make_payment(h, self, amount).trace
               \o <<PrintEv(self, "[HDFC Bank] Payment Successful!\n")>>]

SBIBank_make_payment(h, self, amount) ==
    [ret |-> "None",
     trace |-> <<PrintEv(self, "[SBI Bank] Authenticating Transaction...")>>
               \o PaymentGateway_make_payment(h, self, amount).trace
               \o <<PrintEv(self, "[SBI Bank] Payment Successful!\n")>>]

make_payment(h, self, amount) ==
    CASE h[self].cls = "PaymentGateway" -> PaymentGateway_make_payment(h, self, amount)
      [] h[self].cls = "HDFCBank" -> HDFCBank_make_payment(h, self, amount)
      [] h[self].cls = "SBIBank" -> SBIBank_make_payment(h, self, amount)

(* __main__: the separator line, then the if / elif / else on payment_gateway *)
Payment_Main ==
    /\ program = "payment"
    /\ pc = "start"
    /\ console' = console \o <<"\n--------------------------------------------\n">>
    /\ IF input.gateway = "SBI"
       THEN /\ locals' = locals @@ ("Bank" :> "SBIBank")
            /\ pc' = "helper"
            /\ UNCHANGED raised
       ELSE IF input.gateway = "HDFC"
       THEN /\ locals' = locals @@ ("Bank" :> "HDFCBank")
            /\ pc' = "helper"
            /\ UNCHANGED raised
       ELSE /\ raised' = ValueError("Invalid Payment Gateway")
            /\ pc' = "done"
            /\ UNCHANGED locals
    /\ UNCHANGED <<program, heap, call, result, input, returned>>

(* client_helper: upi = UPI(); credit_card = CreditCard(); paypal = PayPal() *)
Payment_NewMethods ==
    /\ program = "payment"
    /\ pc = "helper"
    /\ heap' = heap \o <<[cls |-> "UPI"], [cls |-> "CreditCard"], [cls |-> "PayPal"]>>
    /\ locals' = locals @@ ("upi" :> Len(heap) + 1) @@ ("credit_card" :> Len(heap) + 2)
                        @@ ("paypal" :> Len(heap) + 3)
    /\ pc' = "select"
    /\ UNCHANGED <<program, call, result, console, input, raised, returned>>

(* One branch of client_helper: the banner, Bank(method), make_payment(amount) *)
Payment_pay(h, Bank, method, banner, amount) ==
    LET h1 == PaymentGateway_init(h, Bank, method)
        gateway == Len(h) + 1
    IN  [heap |-> h1, ret |-> 0, raised |-> NoException,
         trace |-> <<PrintEv(0, "Paying via " \o Bank \o " using " \o banner \o ":")>>
                   \o make_payment(h1, gateway, amount).trace]

(* client_helper: the if / elif / else on payment_method *)
client_helper_select(h, l, payment_method, amount) ==
    IF payment_method = "UPI"
    THEN Payment_pay(h, l.Bank, l.upi, "UPI", amount)
    ELSE IF payment_method = "CreditCard"
    THEN Payment_pay(h, l.Bank, l.credit_card, "Credit Card", amount)
    ELSE IF payment_method = "PayPal"
    THEN Payment_pay(h, l.Bank, l.paypal, "PayPal", amount)
    ELSE [heap |-> h, ret |-> 0, raised |-> ValueError("Invalid Payment Method"),
          trace |-> <<>>]

Payment_Select ==
    /\ program = "payment"
    /\ pc = "select"
    /\ LET r == client_helper_select(heap, locals, input.selection, input.amount)
       IN  /\ heap' = r.heap
           /\ raised' = r.raised
           /\ console' = console \o Printed(r.trace)
    /\ pc' = "done"
    /\ UNCHANGED <<program, call, result, input, locals, returned>>

(***************************************************************************)
(* The state machine                                                       *)
(***************************************************************************)
(* What the user may type at the prompts of each program *)
Inputs(p) ==
    IF p \in {"factory", "robot", "sqlquery"}
    THEN {[selection |-> s, gateway |-> "", amount |-> 0] : s \in Selections}
    ELSE IF p = "payment"
    THEN {[selection |-> s, gateway |-> g, amount |-> a] :
              s \in Selections, g \in Gateways, a \in Amounts}
    ELSE {NoInput}

Init ==
    /\ program \in Programs
    /\ heap = <<>>
    /\ call = NoCall
    /\ result = NoResult
    /\ console = <<>>
    /\ input \in Inputs(program)
    /\ pc = "start"
    /\ locals = <<>>
    /\ raised = NoException
    /\ returned = 0

Next ==
    \/ NewCoffee
    \/ WrapBeverage
    \/ CallCost
    \/ CallDescription
    \/ NewBasicNotifier
    \/ WrapNotifier
    \/ CallSend
    \/ Factory_Select
    \/ Factory_Notify
    \/ Factory_Except
    \/ Robot_NewBuilder
    \/ Robot_NewDirector
    \/ Robot_Select
    \/ Robot_Print
    \/ Robot_BuildAgain
    \/ SQL_NewBuilder
    \/ SQL_NewDirector
    \/ SQL_Select
    \/ SQL_Print
    \/ Payment_Main
    \/ Payment_NewMethods
    \/ Payment_Select

Spec == Init /\ [][Next]_vars

(***************************************************************************)
(* Properties of the decorator chains                                      *)
(***************************************************************************)
IsBase(h, o) == h[o].cls \in {"Coffee", "BasicNotifier"}

(* The component a decorator holds *)
Wrapped(h, o) ==
    IF "beverage" \in DOMAIN h[o] THEN h[o].beverage ELSE h[o].notifier

RECURSIVE Wraps(_, _)
(* The decorator classes wrapped around o's base, innermost first *)
Wraps(h, o) ==
    IF IsBase(h, o) THEN <<>> ELSE Append(Wraps(h, Wrapped(h, o)), h[o].cls)

Front(seq) == SubSeq(seq, 1, Len(seq) - 1)
Last(seq) == seq[Len(seq)]

AddonPrice(cls) ==
    CASE cls = "Milk" -> 10 [] cls = "Sugar" -> 5 [] cls = "Caramel" -> 20

AddonSuffix(cls) ==
    CASE cls = "Milk" -> " + Milk" [] cls = "Sugar" -> " + Sugar"
      [] cls = "Caramel" -> " + Caramel"

RECURSIVE FoldCost(_), FoldDescription(_)
FoldCost(wraps) ==
    IF wraps = <<>> THEN 50 ELSE FoldCost(Front(wraps)) + AddonPrice(Last(wraps))

FoldDescription(wraps) ==
    IF wraps = <<>> THEN "Plain Coffee"
    ELSE FoldDescription(Front(wraps)) \o AddonSuffix(Last(wraps))

OnlyAddons(wraps) == \A i \in DOMAIN wraps : wraps[i] \in {"Milk", "Sugar", "Caramel"}

(* C1: for every sequence of Milk / Sugar / Caramel wraps around a Coffee,   *)
(* cost() of the outermost link is 50 plus the sum of the add-on prices and *)
(* description() is "Plain Coffee" followed by one suffix per wrap, in wrap *)
(* order.                                                                   *)
C1_FoldOverWraps ==
    (program = "coffee" /\ call.method # "none"
        /\ OnlyAddons(Wraps(heap, call.self))) =>
        /\ call.method = "cost" => result.ret = FoldCost(Wraps(heap, call.self))
        /\ call.method = "description" =>
               result.ret = FoldDescription(Wraps(heap, call.self))

C1_Witness ==
    /\ program = "coffee"
    /\ call.method = "description"
    /\ Wraps(heap, call.self) = <<"Caramel", "Sugar", "Caramel">>
    /\ result.ret = "Plain Coffee + Caramel + Sugar + Caramel"

(* C2: Caramel(Sugar(Milk(Coffee()))) costs 85 and is described as "Plain   *)
(* Coffee + Milk + Sugar + Caramel"; the chains built on the way cost 50,   *)
(* 60 and 65, with the corresponding prefixes of the description.           *)
C2_DeluxeCoffee ==
    program = "coffee" =>
        \A deluxe \in DOMAIN heap :
            Wraps(heap, deluxe) = <<"Milk", "Sugar", "Caramel">> =>
                LET milk_sugar == heap[deluxe].beverage
                    milk == heap[milk_sugar].beverage
                    coffee == heap[milk].beverage
                IN  /\ cost(heap, coffee).ret = 50
                    /\ description(heap, coffee).ret = "Plain Coffee"
                    /\ cost(heap, milk).ret = 60
                    /\ description(heap, milk).ret = "Plain Coffee + Milk"
                    /\ cost(heap, milk_sugar).ret = 65
                    /\ description(heap, milk_sugar).ret = "Plain Coffee + Milk + Sugar"
                    /\ cost(heap, deluxe).ret = 85
                    /\ description(heap, deluxe).ret =
                           "Plain Coffee + Milk + Sugar + Caramel"

C2_Witness ==
    /\ program = "coffee"
    /\ call.method = "cost"
    /\ Wraps(heap, call.self) = <<"Milk", "Sugar", "Caramel">>
    /\ result.ret = 85

(* C3: wrapping any chain b in Milk, Sugar or Caramel raises the cost by    *)
(* exactly 10, 5 or 20 and appends exactly that decorator's suffix to b's   *)
(* description.                                                             *)
C3_DeltaOfOneWrap ==
    program = "coffee" =>
        \A d \in DOMAIN heap :
            heap[d].cls \in {"Milk", "Sugar", "Caramel"} =>
                LET b == heap[d].beverage
                IN  /\ cost(heap, d).ret - cost(heap, b).ret = AddonPrice(heap[d].cls)
                    /\ description(heap, d).ret =
                           description(heap, b).ret \o AddonSuffix(heap[d].cls)

C3_Witness ==
    /\ program = "coffee"
    /\ call.method = "cost"
    /\ heap[call.self].cls = "Sugar"
    /\ heap[heap[call.self].beverage].cls = "AddonDecorator"
    /\ result.ret = cost(heap, heap[call.self].beverage).ret + 5
IsDecoratorProgram == program \in {"coffee", "notification"}

(* C4: wrapping never mutates the wrapped object: no step changes a field   *)
(* (so no wrapped reference) of an object that already exists, and after a  *)
(* wrap every earlier object's cost(), description() and send(m) are what   *)
(* they were before it.                                                     *)
C4_WrapLeavesWrappedUnchanged ==
    [][IsDecoratorProgram =>
          \A b \in DOMAIN heap :
              /\ b \in DOMAIN heap'
              /\ heap'[b] = heap[b]
              /\ (heap' # heap /\ program = "coffee") =>
                     /\ cost(heap', b) = cost(heap, b)
                     /\ description(heap', b) = description(heap, b)
              /\ (heap' # heap /\ program = "notification") =>
                     \A m \in Messages : send(heap', b, m) = send(heap, b, m)]_vars

(* An operation has run on a decorator whose wrapped component is itself a  *)
(* decorator                                                                *)
C4_Witness ==
    /\ IsDecoratorProgram
    /\ call.method # "none"
    /\ ~IsBase(heap, call.self)
    /\ ~IsBase(heap, Wrapped(heap, call.self))
    /\ Len(heap) > call.self

NotifierLine(cls, message) ==
    CASE cls = "BasicNotifier" -> <<"Basic Notificatio: " \o message>>
      [] cls = "NotificationDecorator" -> <<>>
      [] cls = "EmailNotifier" -> <<"Sending Email: " \o message>>
      [] cls = "SMSNotifier" -> <<"Sending SMS: " \o message>>
      [] cls = "PushNotifier" -> <<"Sending Push Notification: " \o message>>

RECURSIVE FoldLines(_, _)
FoldLines(wraps, message) ==
    IF wraps = <<>> THEN NotifierLine("BasicNotifier", message)
    ELSE FoldLines(Front(wraps), message) \o NotifierLine(Last(wraps), message)

(* How many events of a trace equal e *)
Count(trace, e) == Cardinality({i \in DOMAIN trace : trace[i] = e})

(* C5: send(m) on a chain emits the wrapped chain's whole output first and  *)
(* the link's own line after it: BasicNotifier's line, then each decorator's *)
(* line from innermost to outermost, each exactly once, and no decorator's  *)
(* line before the wrapped send has returned.                               *)
C5_WrappedOutputFirst ==
    (program = "notification" /\ call.method = "send") =>
        /\ console = FoldLines(Wraps(heap, call.self), call.message)
        /\ \A i \in DOMAIN result.trace :
              LET e == result.trace[i]
              IN  (e.ev = "print" /\ ~IsBase(heap, e.obj)) =>
                      /\ \E j \in 1..(i - 1) :
                            result.trace[j] = ReturnEv(Wrapped(heap, e.obj), "send")
                      /\ Count(result.trace, e) = 1

C5_Witness ==
    /\ program = "notification"
    /\ call.method = "send"
    /\ Wraps(heap, call.self) = <<"EmailNotifier", "SMSNotifier", "PushNotifier">>
    /\ console = <<"Basic Notificatio: Hello, User !!", "Sending Email: Hello, User !!",
                   "Sending SMS: Hello, User !!",
                   "Sending Push Notification: Hello, User !!">>

(* C6: two distinct chains built from the same sequence of variant choices  *)
(* are operation-equivalent: what a call on one returned (and printed) is   *)
(* what the same call on the other returns (and prints).                    *)
C6_SameChoicesSameResults ==
    (IsDecoratorProgram /\ call.method # "none") =>
        \A twin \in DOMAIN heap :
            (twin # call.self /\ Wraps(heap, twin) = Wraps(heap, call.self)) =>
                /\ call.method = "cost" => cost(heap, twin).ret = result.ret
                /\ call.method = "description" =>
                       description(heap, twin).ret = result.ret
                /\ call.method = "send" =>
                       Printed(send(heap, twin, call.message).trace) = console

C6_Witness ==
    /\ IsDecoratorProgram
    /\ call.method # "none"
    /\ \E twin \in DOMAIN heap :
          /\ twin # call.self
          /\ Wraps(heap, twin) = Wraps(heap, call.self)
          /\ Len(Wraps(heap, twin)) >= 1
          /\ Wrapped(heap, twin) # Wrapped(heap, call.self)

(* C9: a decorator that overrides nothing forwards unchanged: a call on an  *)
(* AddonDecorator or NotificationDecorator link returns what the wrapped    *)
(* component returns and prints what it prints, and invokes the wrapped      *)
(* operation exactly once.                                                  *)
C9_BaseDecoratorForwards ==
    (/\ IsDecoratorProgram
     /\ call.method # "none"
     /\ heap[call.self].cls \in {"AddonDecorator", "NotificationDecorator"}) =>
        LET b == Wrapped(heap, call.self)
            inner == CASE call.method = "cost" -> cost(heap, b)
                       [] call.method = "description" -> description(heap, b)
                       [] call.method = "send" -> send(heap, b, call.message)
        IN  /\ result.ret = inner.ret
            /\ console = Printed(inner.trace)
            /\ Count(result.trace, CallEv(b, call.method)) = 1
            /\ result.trace = <<CallEv(call.self, call.method)>> \o inner.trace
                                  \o <<ReturnEv(call.self, call.method)>>

C9_Witness ==
    /\ program = "coffee"
    /\ call.method = "cost"
    /\ heap[call.self].cls = "AddonDecorator"
    /\ heap[heap[call.self].beverage].cls = "Milk"
    /\ result.ret = 60

RECURSIVE Link(_, _, _)
(* The link k wrapped references below o, or the base if that comes first *)
Link(h, o, k) ==
    IF k = 0 \/ IsBase(h, o) THEN o ELSE Link(h, Wrapped(h, o), k - 1)

(* C10: every chain is finite and acyclic: following the wrapped reference  *)
(* from any link reaches a Coffee or BasicNotifier within as many steps as  *)
(* there are objects, and never comes back to the link it started from.     *)
C10_ChainsEndInABase ==
    IsDecoratorProgram =>
        \A o \in DOMAIN heap :
            /\ IsBase(heap, o) \/ Wrapped(heap, o) \in DOMAIN heap
            /\ IsBase(heap, Link(heap, o, Len(heap)))
            /\ ~IsBase(heap, o) =>
                   \A k \in 0..Len(heap) : Link(heap, Wrapped(heap, o), k) # o

C10_Witness ==
    /\ IsDecoratorProgram
    /\ \E o \in DOMAIN heap :
          /\ Len(Wraps(heap, o)) = 3
          /\ IsBase(heap, Link(heap, o, 3))
          /\ ~IsBase(heap, Link(heap, o, 2))
(***************************************************************************)
(* Properties of the selectors                                             *)
(***************************************************************************)
Recognised(p) ==
    CASE p = "factory" -> {"email", "sms", "push"}
      [] p = "robot" -> {"simple", "ai_robot"}
      [] p = "sqlquery" -> {"user", "product"}
      [] p = "payment" -> {"UPI", "CreditCard", "PayPal"}

(* The selector's if / elif / else has run on the selection string *)
Selected ==
    CASE program = "factory" -> pc \in {"notify", "except", "done"}
      [] program \in {"robot", "sqlquery"} -> pc \in {"print", "done"}
      [] program = "payment" -> pc = "done" /\ "upi" \in DOMAIN locals
      [] OTHER -> FALSE

Rejected == Selected /\ input.selection \notin Recognised(program)

ClassesOf(h) == {h[o].cls : o \in DOMAIN h}

(* The lines that are no effect of notify, process or make_payment *)
PlainLines ==
    {"Error : Invalid notification type",
     "\n--------------------------------------------\n"}

(* C7: every selector rejects every string outside its recognised set by    *)
(* raising ValueError: nothing is returned, no product or gateway exists    *)
(* and no notify / process / make_payment line is printed for that request. *)
C7_UnknownSelectionRaises ==
    Rejected =>
        /\ raised.type = "ValueError"
        /\ returned = 0
        /\ ClassesOf(heap) \cap {"EmailNotification", "SMSNotification",
                                 "PushNotification", "PaymentGateway", "HDFCBank",
                                 "SBIBank"} = {}
        /\ \A i \in DOMAIN console : console[i] \in PlainLines
        /\ pc # "print"

C7_Witness ==
    /\ program = "payment"
    /\ Rejected
    /\ input.selection = "fax"
    /\ raised = ValueError("Invalid Payment Method")

BuilderPrograms == {"robot", "sqlquery", "payment"}

(* C8 as stated: when Robot client_code, SQLQuery client_code or payment    *)
(* client_helper rejects a selection, no builder, director, product or      *)
(* payment-method object has been created.                                  *)
C8_NothingConstructedAtRejection ==
    (program \in BuilderPrograms /\ Rejected) => heap = <<>>

(* C8 as amended: at the rejection the objects that client_code and         *)
(* client_helper construct before they look at the selection exist, all as  *)
(* constructed (Robot fields None, query text empty), and nothing else: no  *)
(* build step has run and no gateway has been constructed.                  *)
C8_NoBuildStepAtRejection ==
    (program \in BuilderPrograms /\ Rejected) =>
        /\ program = "robot" =>
               heap = <<[cls |-> "BasicRobotBuilder", robot |-> 2],
                        [cls |-> "Robot", head |-> "None", arms |-> "None",
                         legs |-> "None", ai_enable |-> "None"],
                        [cls |-> "RobotDirector", builder |-> 1]>>
        /\ program = "sqlquery" =>
               heap = <<[cls |-> "SQLConcreteBuilder", query |-> 2],
                        [cls |-> "SQLQuery", query |-> ""],
                        [cls |-> "SQLQueryDirector", builder |-> 1]>>
        /\ program = "payment" =>
               heap = <<[cls |-> "UPI"], [cls |-> "CreditCard"], [cls |-> "PayPal"]>>

C8_Witness ==
    /\ program = "robot"
    /\ Rejected
    /\ raised = ValueError("Unknown robot type given")
    /\ Len(heap) = 3
(***************************************************************************)
(* Ownership, hidden state and termination of the decorator chains         *)
(***************************************************************************)
(* The decorators whose wrapped reference is b *)
Owners(h, b) == {d \in DOMAIN h : ~IsBase(h, d) /\ Wrapped(h, d) = b}

(* The component the client passed to the latest decorator constructor *)
Passed(l) == IF "beverage" \in DOMAIN l THEN l.beverage ELSE l.notifier

(* C11 as stated: no component is the wrapped reference of more than one    *)
(* decorator.                                                               *)
C11_ExclusiveOwnership ==
    IsDecoratorProgram =>
        \A b \in DOMAIN heap : Cardinality(Owners(heap, b)) <= 1

(* C11 as amended: a decorator holds one wrapped reference, the component   *)
(* the client passed to its constructor: constructing a decorator makes it  *)
(* an owner of that component and changes the owners of no other, and       *)
(* constructing a base changes no owners.  (So a component has two owners   *)
(* exactly when the client has wrapped it twice.)                           *)
C11_OneOwnerPerWrap ==
    [][(IsDecoratorProgram /\ heap' # heap) =>
          LET new == Len(heap')
          IN  /\ new = Len(heap) + 1
              /\ \A b \in DOMAIN heap' :
                    Owners(heap', b) =
                        IF ~IsBase(heap', new) /\ Passed(locals') = b
                        THEN Owners(heap, b) \cup {new}
                        ELSE IF b = new THEN {} ELSE Owners(heap, b)]_vars

(* The client has wrapped one component in two decorators *)
C11_Witness ==
    /\ IsDecoratorProgram
    /\ \E b \in DOMAIN heap :
          /\ Cardinality(Owners(heap, b)) = 2
          /\ Passed(locals) = b
          /\ Len(heap) \in Owners(heap, b)

(* What a call yields on heap h *)
Eval(h, c) ==
    CASE c.method = "cost" -> cost(h, c.self)
      [] c.method = "description" -> description(h, c.self)
      [] c.method = "send" -> send(h, c.self, c.message)

(* C12: cost(), description() and send(m) change no field of any link, and  *)
(* what a call returned and printed is what the same call returns and       *)
(* prints in every later state, whatever calls and wraps came in between.   *)
C12_CallsHaveNoHiddenState ==
    [][IsDecoratorProgram =>
          /\ (call' # call \/ result' # result \/ console' # console) =>
                 heap' = heap
          /\ call'.method # "none" =>
                 /\ Eval(heap', call') = result'
                 /\ Printed(result'.trace) = console'
          /\ (call' = call /\ call.method # "none") => result' = result]_vars

(* A call was made, then the chain was wrapped further, and the call's      *)
(* result still stands                                                      *)
C12_Witness ==
    /\ program = "notification"
    /\ call.method = "send"
    /\ Owners(heap, call.self) # {}
    /\ Len(console) = 2

CallsIn(trace) == {i \in DOMAIN trace : trace[i].ev = "call"}

(* C14: a call on a chain of depth n completes after n delegations to       *)
(* wrapped components and one call on the base: n + 1 calls in all, each on *)
(* a different link, the last on the base, and each of them returns.        *)
C14_OneCallPerLink ==
    (IsDecoratorProgram /\ call.method # "none") =>
        LET n == Len(Wraps(heap, call.self))
            calls == CallsIn(result.trace)
        IN  /\ Cardinality(calls) = n + 1
            /\ \A i, j \in calls : result.trace[i].obj = result.trace[j].obj => i = j
            /\ \A i \in calls :
                  /\ result.trace[i].obj = Link(heap, call.self, Cardinality({j \in calls : j < i}))
                  /\ Count(result.trace,
                           ReturnEv(result.trace[i].obj, call.method)) = 1
            /\ Cardinality({i \in calls : IsBase(heap, result.trace[i].obj)}) = 1
            /\ result.trace[Len(result.trace)] = ReturnEv(call.self, call.method)

C14_Witness ==
    /\ program = "coffee"
    /\ call.method = "description"
    /\ Len(Wraps(heap, call.self)) = 3
    /\ Cardinality(CallsIn(result.trace)) = 4
(***************************************************************************)
(* Properties of the Robot director                                        *)
(***************************************************************************)
SimpleRobot ==
    [cls |-> "Robot", head |-> "Metal Head", arms |-> "Basic Arms",
     legs |-> "Wheels", ai_enable |-> "None"]

AIRobot ==
    [cls |-> "Robot", head |-> "Advanced Head", arms |-> "Strong Arms",
     legs |-> "Bipedal Legs", ai_enable |-> "True"]

(* C18: on one RobotDirector, every build_simple_robot returns a robot with *)
(* Metal Head, Basic Arms, Wheels and no AI, every build_ai_robot one with  *)
(* Advanced Head, Strong Arms, Bipedal Legs and AI, and a later build does  *)
(* not change a robot returned earlier.                                     *)
C18_ReusableConfigurations ==
    [][(program = "robot" /\ call' # NoCall /\ (call' # call \/ locals' # locals)) =>
          /\ call'.method = "build_simple_robot" => heap'[returned'] = SimpleRobot
          /\ call'.method = "build_ai_robot" => heap'[returned'] = AIRobot
          /\ returned # 0 => heap'[returned] = heap[returned]]_vars
(***************************************************************************)
(* Properties of get_notification_factory                                  *)
(***************************************************************************)
FactoryOf(notification_type) ==
    CASE notification_type = "email" -> "EmailNotificationFactory"
      [] notification_type = "sms" -> "SMSNotificationFactory"
      [] notification_type = "push" -> "PushNotificationFactory"

ProductLine(notification_type, message) ==
    CASE notification_type = "email" -> "Sending Email: " \o message
      [] notification_type = "sms" -> "Sending SMS: " \o message
      [] notification_type = "push" -> "Sending Push Notification: " \o message

(* C19: what get_notification_factory returns for "email", "sms" or "push"  *)
(* is a NotificationFactory of the matching kind: send_notification(message)*)
(* is available on it and prints the matching product's line exactly once.  *)
C19_ReturnsAFactory ==
    (program = "factory" /\ pc = "notify") =>
        /\ heap[returned].cls = FactoryOf(input.selection)
        /\ \A m \in Messages :
              LET r == send_notification(heap, returned, m)
              IN  /\ r.raised = NoException
                  /\ Printed(r.trace) = <<ProductLine(input.selection, m)>>
(***************************************************************************)
(* creational/singleton.py                                                 *)
(*                                                                         *)
(* heap[SingletonClass] is the class object with its attributes _instance  *)
(* (an object id, 0 for None) and _lock (the thread holding it, 0 when     *)
(* free).  Threads call Singleton(); pc, locals and returned are functions *)
(* of the thread: the position in __new__, the object just allocated and   *)
(* the results of the thread's calls so far.                               *)
(***************************************************************************)
Threads == 1..MaxThreads

SingletonClass == 1

Singleton_class == [cls |-> "type", _instance |-> 0, _lock |-> 0]

InitSingleton ==
    /\ program = "singleton"
    /\ heap = <<Singleton_class>>
    /\ call = NoCall
    /\ result = NoResult
    /\ console = <<>>
    /\ input = NoInput
    /\ pc = [t \in Threads |-> "idle"]
    /\ locals = [t \in Threads |-> 0]
    /\ raised = NoException
    /\ returned = [t \in Threads |-> <<>>]

(* A thread calls Singleton(): __new__(cls) starts *)
Singleton_Call(t) ==
    /\ pc[t] = "idle"
    /\ Len(returned[t]) < MaxCalls
    /\ pc' = [pc EXCEPT ![t] = "with"]
    /\ UNCHANGED <<program, heap, call, result, console, input, locals, raised, returned>>

(* with cls._lock: entered without waiting for the lock *)
Singleton_Acquire_unguarded(t) ==
    /\ pc[t] = "with"
    /\ heap' = [heap EXCEPT ![SingletonClass]._lock = t]
    /\ pc' = [pc EXCEPT ![t] = "if"]
    /\ UNCHANGED <<program, call, result, console, input, locals, raised, returned>>

(* with cls._lock: blocks until the lock is free, then holds it *)
Singleton_Acquire(t) ==
    /\ pc[t] = "with"
    /\ heap[SingletonClass]._lock = 0
    /\ heap' = [heap EXCEPT ![SingletonClass]._lock = t]
    /\ pc' = [pc EXCEPT ![t] = "if"]
    /\ UNCHANGED <<program, call, result, console, input, locals, raised, returned>>

(* if cls._instance is None *)
Singleton_Check(t) ==
    /\ pc[t] = "if"
    /\ pc' = [pc EXCEPT ![t] = IF heap[SingletonClass]._instance = 0
                                THEN "new" ELSE "return"]
    /\ UNCHANGED <<program, heap, call, result, console, input, locals, raised, returned>>

(* super().__new__(cls): a new object *)
Singleton_New(t) ==
    /\ pc[t] = "new"
    /\ heap' = Append(heap, [cls |-> "Singleton"])
    /\ locals' = [locals EXCEPT ![t] = Len(heap) + 1]
    /\ pc' = [pc EXCEPT ![t] = "store"]
    /\ UNCHANGED <<program, call, result, console, input, raised, returned>>

(* cls._instance = <the new object> *)
Singleton_Store(t) ==
    /\ pc[t] = "store"
    /\ heap' = [heap EXCEPT ![SingletonClass]._instance = locals[t]]
    /\ pc' = [pc EXCEPT ![t] = "return"]
    /\ UNCHANGED <<program, call, result, console, input, locals, raised, returned>>

(* return cls._instance: the value is read inside the with block *)
Singleton_Return(t) ==
    /\ pc[t] = "return"
    /\ returned' = [returned EXCEPT ![t] = Append(@, heap[SingletonClass]._instance)]
    /\ pc' = [pc EXCEPT ![t] = "exit"]
    /\ UNCHANGED <<program, heap, call, result, console, input, locals, raised>>

(* leaving the with block releases the lock *)
Singleton_Exit(t) ==
    /\ pc[t] = "exit"
    /\ heap' = [heap EXCEPT ![SingletonClass]._lock = 0]
    /\ pc' = [pc EXCEPT ![t] = "idle"]
    /\ UNCHANGED <<program, call, result, console, input, locals, raised, returned>>

NextSingleton ==
    \E t \in Threads :
        \/ Singleton_Call(t)
        \/ Singleton_Acquire(t)
        \/ Singleton_Check(t)
        \/ Singleton_New(t)
        \/ Singleton_Store(t)
        \/ Singleton_Return(t)
        \/ Singleton_Exit(t)

SingletonSpec == InitSingleton /\ [][NextSingleton]_vars

(***************************************************************************)
(* Properties of Singleton                                                 *)
(***************************************************************************)
Instances(h) == {i \in DOMAIN h : h[i].cls = "Singleton"}

Results == {returned[t][i] : <<t, i>> \in {x \in Threads \X (1..MaxCalls) : x[2] <= Len(returned[x[1]])}}

(* C13: under every interleaving of concurrent Singleton() calls the       *)
(* instance is created at most once and every call returns that instance:  *)
(* any two results, of one thread or of two, are the same object.          *)
C13_OneInstance ==
    program = "singleton" =>
        /\ Cardinality(Instances(heap)) <= 1
        /\ Results \subseteq Instances(heap)
        /\ Cardinality(Results) <= 1

(* Two threads have results, one of them from two calls, while another call is under way *)
C13_Witness ==
    /\ program = "singleton"
    /\ \E t, u \in Threads :
          /\ t # u
          /\ Len(returned[t]) = 2
          /\ Len(returned[u]) = 1
          /\ pc[u] = "return"
(***************************************************************************)
(* creational/Prototype/Eg1_Game.py and Eg2_Document.py                    *)
(*                                                                         *)
(* The fields of a GameCharacter and of a Document hold strings and        *)
(* numbers.  The clients clone any object they hold and assign fields of   *)
(* any object; call records the last such statement with its arguments.    *)
(***************************************************************************)
None == <<>>

(* The values the clients assign to a field or pass for it *)
NewValues(field) ==
    CASE field = "name" -> {"Copied Player"}
      [] field = "weapon" -> {"Bow"}
      [] field = "title" -> {"Second Book"}
      [] field = "author" -> {"Priyanshu", ""}
      [] field = "content" -> {"The end"}

(* An Optional[str] argument: None, or <<v>> for the string v *)
Optional(field) == {None} \cup {<<v>> : v \in NewValues(field)}

clone_same_object(h, self) == Outcome(h, self)

(* clone: copy.deepcopy(self) of an object whose fields are str / int is a  *)
(* new object with equal fields                                             *)
clone(h, self) == Outcome(Append(h, h[self]), Len(h) + 1)

(* obj.<field> = value *)
setattr(h, obj, field, value) == [h EXCEPT ![obj] = [@ EXCEPT ![field] = value]]

GameCharacter_init(h, name, weapon, health) ==
    Outcome(Append(h, [cls |-> "GameCharacter", name |-> name,
                       weapon |-> weapon, health |-> health]),
            Len(h) + 1)

GameCharacter_str(h, self) ==
    h[self].name \o " | Weapon: " \o h[self].weapon
        \o " | Health: " \o ToString(h[self].health)

(* player1 = client_helper(player_name, "Axe", 100); print(player1) *)
Game_NewPlayer ==
    /\ program = "game"
    /\ pc = "start"
    /\ LET r == GameCharacter_init(heap, input.name, "Axe", 100)
       IN  /\ heap' = r.heap
           /\ locals' = [player1 |-> r.ret]
           /\ console' = Append(console, GameCharacter_str(r.heap, r.ret))
    /\ pc' = "main"
    /\ UNCHANGED <<program, call, result, input, raised, returned>>

(* player2 = <a player>.clone() *)
Game_Clone ==
    /\ program = "game"
    /\ pc = "main"
    /\ Len(heap) <= MaxClones
    /\ \E p \in DOMAIN heap :
          LET r == clone(heap, p)
          IN  /\ heap' = r.heap
              /\ returned' = r.ret
              /\ call' = [method |-> "clone", self |-> p, message |-> ""]
    /\ UNCHANGED <<program, result, console, input, pc, locals, raised>>

(* <a player>.name = "Copied Player" / <a player>.weapon = "Bow" *)
Game_Assign ==
    /\ program = "game"
    /\ pc = "main"
    /\ \E obj \in DOMAIN heap :
       \E field \in {"name", "weapon"} :
       \E a \in {[field |-> field, value |-> v] : v \in NewValues(field)} :
          /\ heap' = setattr(heap, obj, a.field, a.value)
          /\ call' = [method |-> "setattr", self |-> obj, message |-> a]
    /\ UNCHANGED <<program, result, console, input, pc, locals, raised, returned>>

(* print(player2) *)
Game_Print ==
    /\ program = "game"
    /\ pc = "main"
    /\ returned # 0
    /\ console' = Append(console, GameCharacter_str(heap, returned))
    /\ pc' = "done"
    /\ UNCHANGED <<program, heap, call, result, input, locals, raised, returned>>

Document_init(h, title, author, content) ==
    Outcome(Append(h, [cls |-> "Document", title |-> title,
                       author |-> author, content |-> content]),
            Len(h) + 1)

(* self.content[:30] is the whole content: the contents here are shorter *)
Document_str(h, self) ==
    <<"Title: " \o h[self].title \o " | Author: " \o h[self].author,
      "Content: " \o h[self].content \o "...">>

Document_client_helper(h, original_document, new_title, new_author, new_content) ==
    LET c == clone(h, original_document)
        new_document == c.ret
        h1 == setattr(c.heap, new_document, "title", new_title)
        h2 == IF new_author # None
              THEN setattr(h1, new_document, "author", new_author[1])
              ELSE h1
        h3 == IF new_content # None
              THEN setattr(h2, new_document, "content", new_content[1])
              ELSE h2
    IN  Outcome(h3, new_document)

(* first_document = Document(title, author, content); print(first_document) *)
Document_New ==
    /\ program = "document"
    /\ pc = "start"
    /\ LET r == Document_init(heap, input.title, input.author, input.content)
       IN  /\ heap' = r.heap
           /\ locals' = [first_document |-> r.ret]
           /\ console' = console \o Document_str(r.heap, r.ret)
    /\ pc' = "main"
    /\ UNCHANGED <<program, call, result, input, raised, returned>>

(* second_document = client_helper(<a document>, new_title, ...) *)
Document_Helper ==
    /\ program = "document"
    /\ pc = "main"
    /\ Len(heap) <= MaxClones
    /\ \E p \in DOMAIN heap, new_title \in NewValues("title"),
          new_author \in Optional("author"), new_content \in Optional("content") :
          LET r == Document_client_helper(heap, p, new_title, new_author, new_content)
          IN  /\ heap' = r.heap
              /\ returned' = r.ret
              /\ call' = [method |-> "client_helper", self |-> p,
                          message |-> [new_title |-> new_title,
                                       new_author |-> new_author,
                                       new_content |-> new_content]]
    /\ UNCHANGED <<program, result, console, input, pc, locals, raised>>

(* <a document>.title / .author / .content = value *)
Document_Assign ==
    /\ program = "document"
    /\ pc = "main"
    /\ \E obj \in DOMAIN heap :
       \E field \in {"title", "author", "content"} :
       \E a \in {[field |-> field, value |-> v] : v \in NewValues(field)} :
          /\ heap' = setattr(heap, obj, a.field, a.value)
          /\ call' = [method |-> "setattr", self |-> obj, message |-> a]
    /\ UNCHANGED <<program, result, console, input, pc, locals, raised, returned>>

(* print(second_document) *)
Document_Print ==
    /\ program = "document"
    /\ pc = "main"
    /\ returned # 0
    /\ console' = console \o Document_str(heap, returned)
    /\ pc' = "done"
    /\ UNCHANGED <<program, heap, call, result, input, locals, raised, returned>>

(***************************************************************************)
(* creational/abstractFactory.py                                           *)
(***************************************************************************)
(* render() of the four concrete products *)
render(h, self) ==
    LET line == CASE h[self].cls = "MacButton" -> "Rendering Mac Button"
                  [] h[self].cls = "WindowsButton" -> "Rendering Windows Button"
                  [] h[self].cls = "MacCheckBox" -> "Rendering Mac Check Box"
                  [] h[self].cls = "WindowsCheckBox" -> "Rendering Windows Check Box"
    IN  [ret |-> "None",
         trace |-> <<CallEv(self, "render"), PrintEv(self, line),
                     ReturnEv(self, "render")>>]

(* MacFactory.create_button / WindowsFactory.create_button *)
create_button(h, self) ==
    IF h[self].cls = "MacFactory"
    THEN Outcome(Append(h, [cls |-> "MacButton"]), Len(h) + 1)
    ELSE Outcome(Append(h, [cls |-> "WindowsButton"]), Len(h) + 1)

create_checkbox_copied(h, self) ==
    Outcome(Append(h, [cls |-> "MacCheckBox"]), Len(h) + 1)

(* MacFactory.create_checkbox / WindowsFactory.create_checkbox *)
create_checkbox(h, self) ==
    IF h[self].cls = "MacFactory"
    THEN Outcome(Append(h, [cls |-> "MacCheckBox"]), Len(h) + 1)
    ELSE Outcome(Append(h, [cls |-> "WindowsCheckBox"]), Len(h) + 1)

render_ui(h, factory) ==
    LET b == create_button(h, factory)
        c == create_checkbox(b.heap, factory)
    IN  [heap |-> c.heap, button |-> b.ret, checkbox |-> c.ret,
         trace |-> render(c.heap, b.ret).trace \o render(c.heap, c.ret).trace]

(* if platform == "windows": factory = WindowsFactory() else: factory = MacFactory() *)
Gui_NewFactory ==
    /\ program = "gui"
    /\ Len(heap) < MaxObjects
    /\ \E platform \in {"mac", "windows", "linux"} :
          /\ heap' = Append(heap, [cls |-> IF platform = "windows"
                                           THEN "WindowsFactory" ELSE "MacFactory"])
          /\ input' = [platform |-> platform]
    /\ locals' = [factory |-> Len(heap) + 1] @@ locals
    /\ UNCHANGED <<program, call, result, console, pc, raised, returned>>

(* render_ui(factory) *)
Gui_RenderUi ==
    /\ program = "gui"
    /\ Len(heap) + 2 <= MaxObjects
    /\ \E factory \in {i \in DOMAIN heap : heap[i].cls \in {"MacFactory", "WindowsFactory"}} :
          LET r == render_ui(heap, factory)
          IN  /\ heap' = r.heap
              /\ call' = [method |-> "render_ui", self |-> factory, message |-> ""]
              /\ result' = [ret |-> "None", trace |-> r.trace]
              /\ locals' = [factory |-> factory, button |-> r.button,
                            checkbox |-> r.checkbox]
              /\ console' = console \o Printed(r.trace)
    /\ UNCHANGED <<program, input, pc, raised, returned>>

(***************************************************************************)
(* structural/composite/Eg1_Organization.py and Eg2_FileSystem.py          *)
(*                                                                         *)
(* A Manager holds the list subordinates, a Folder the list children; the  *)
(* lists hold object ids.  The clients construct nodes with the arguments  *)
(* of the __main__ blocks and add, remove and show any of them.            *)
(***************************************************************************)
Constructors(p) ==
    IF p = "organization"
    THEN {[cls |-> "Developer", name |-> "Alice", position |-> "Software Engineer"],
          [cls |-> "Designer", name |-> "Charlie", position |-> "UI/UX Designer"],
          [cls |-> "Manager", name |-> "David", position |-> "Engineering Manager",
           subordinates |-> <<>>]}
    ELSE {[cls |-> "File", name |-> "resume.pdf"],
          [cls |-> "Folder", name |-> "Documents", children |-> <<>>]}

Composites == {"Manager", "Folder"}

(* self.subordinates / self.children; a leaf has neither *)
Items(h, self) ==
    IF h[self].cls = "Manager" THEN h[self].subordinates
    ELSE IF h[self].cls = "Folder" THEN h[self].children
    ELSE <<>>

(* Manager.addEmployee / Folder.add: list.append *)
add(h, self, item) ==
    IF h[self].cls = "Manager"
    THEN [h EXCEPT ![self].subordinates = Append(@, item)]
    ELSE [h EXCEPT ![self].children = Append(@, item)]

(* list.remove(x) drops the first element equal to x *)
RECURSIVE list_remove(_, _)
list_remove(list, x) ==
    IF list = <<>> THEN <<>>
    ELSE IF Head(list) = x THEN Tail(list)
    ELSE <<Head(list)>> \o list_remove(Tail(list), x)

(* Manager.removeEmployee / Folder.remove: list.remove, ValueError when absent *)
remove(h, self, item) ==
    IF \A i \in DOMAIN Items(h, self) : Items(h, self)[i] # item
    THEN Raise(h, ValueError("list.remove(x): x not in list"))
    ELSE IF h[self].cls = "Manager"
    THEN Outcome([h EXCEPT ![self].subordinates = list_remove(@, item)], "None")
    ELSE Outcome([h EXCEPT ![self].children = list_remove(@, item)], "None")

RECURSIVE Spaces(_)
Spaces(n) == IF n <= 0 THEN "" ELSE " " \o Spaces(n - 1)

(* The lines a node prints for itself *)
OwnLines(h, self, indent) ==
    IF h[self].cls = "Manager"
    THEN <<PrintEv(self, ""), PrintEv(self, h[self].position \o " : " \o h[self].name),
           PrintEv(self, "Subordinates:")>>
    ELSE IF h[self].cls \in {"Developer", "Designer"}
    THEN <<PrintEv(self, h[self].position \o " : " \o h[self].name)>>
    ELSE <<PrintEv(self, Spaces(indent) \o h[self].name)>>

(* showDetails of the five classes; a call nested deeper than the          *)
(* interpreter's recursion limit raises RecursionError, which ends every    *)
(* enclosing call.  showEach is the for loop over the list from index i.    *)
RECURSIVE showDetails(_, _, _, _)
RECURSIVE showEach(_, _, _, _, _)
showEach(h, items, i, indent, depth) ==
    IF i > Len(items) THEN [raised |-> NoException, trace |-> <<>>]
    ELSE LET r == showDetails(h, items[i], indent, depth)
         IN  IF r.raised # NoException THEN r
             ELSE LET rest == showEach(h, items, i + 1, indent, depth)
                  IN  [raised |-> rest.raised, trace |-> r.trace \o rest.trace]

showDetails(h, self, indent, depth) ==
    IF depth > RecursionLimit
    THEN [raised |-> RecursionError("maximum recursion depth exceeded"),
          trace |-> <<>>]
    ELSE LET sub == showEach(h, Items(h, self), 1,
                             IF h[self].cls = "Folder" THEN indent + 4 ELSE indent,
                             depth + 1)
         IN  [raised |-> sub.raised,
              trace |-> <<CallEv(self, "showDetails")>> \o OwnLines(h, self, indent)
                            \o sub.trace
                            \o IF sub.raised = NoException
                               THEN <<ReturnEv(self, "showDetails")>> ELSE <<>>]

IsCompositeProgram == program \in {"organization", "filesystem"}

(* The list entries of all composites together *)
RECURSIVE Edges(_, _)
Edges(h, n) == IF n = 0 THEN 0 ELSE Len(Items(h, n)) + Edges(h, n - 1)

(* Developer(..) / Designer(..) / Manager(..) / File(..) / Folder(..) *)
Composite_New ==
    /\ IsCompositeProgram
    /\ raised = NoException
    /\ Len(heap) < MaxNodes
    /\ \E c \in Constructors(program) : heap' = Append(heap, c)
    /\ pc' = "main"
    /\ UNCHANGED <<program, call, result, console, input, locals, raised, returned>>

(* <a manager>.addEmployee(<a node>) / <a folder>.add(<a node>) *)
Composite_Add ==
    /\ IsCompositeProgram
    /\ raised = NoException
    /\ Edges(heap, Len(heap)) < MaxEdges
    /\ \E self \in {n \in DOMAIN heap : heap[n].cls \in Composites}, item \in DOMAIN heap :
          /\ heap' = add(heap, self, item)
          /\ call' = [method |-> "add", self |-> self, message |-> item]
    /\ result' = NoResult
    /\ console' = <<>>
    /\ UNCHANGED <<program, input, pc, locals, raised, returned>>

(* <a manager>.removeEmployee(<a node>) / <a folder>.remove(<a node>) *)
Composite_Remove ==
    /\ IsCompositeProgram
    /\ raised = NoException
    /\ \E self \in {n \in DOMAIN heap : heap[n].cls \in Composites}, item \in DOMAIN heap :
          LET r == remove(heap, self, item)
          IN  /\ heap' = r.heap
              /\ raised' = r.raised
              /\ call' = [method |-> "remove", self |-> self, message |-> item]
    /\ result' = NoResult
    /\ console' = <<>>
    /\ UNCHANGED <<program, input, pc, locals, returned>>

(* <a node>.showDetails() *)
Composite_Show ==
    /\ IsCompositeProgram
    /\ raised = NoException
    /\ \E self \in DOMAIN heap :
          LET r == showDetails(heap, self, 0, 1)
          IN  /\ call' = [method |-> "showDetails", self |-> self, message |-> ""]
              /\ result' = [ret |-> "None", trace |-> r.trace]
              /\ console' = Printed(r.trace)
              /\ raised' = r.raised
    /\ UNCHANGED <<program, heap, input, pc, locals, returned>>

(***************************************************************************)
(* structural/bridge/Eg1_remote_control.py                                 *)
(*                                                                         *)
(* A TV has the fields enabled, volume, channel.  Its methods read and     *)
(* assign self.enable, the name of one of its own methods: the field       *)
(* enable of a TV says what the name enable stands for on that object,     *)
(* "method" while no assignment has shadowed the method.  The channel of a  *)
(* Radio is kept in tenths of a MHz (90.1 is 901).                         *)
(***************************************************************************)
TV_init(h) ==
    Outcome(Append(h, [cls |-> "TV", enabled |-> "False", volume |-> 50,
                       channel |-> 1, enable |-> "method"]),
            Len(h) + 1)

Radio_init(h) ==
    Outcome(Append(h, [cls |-> "Radio", enabled |-> "False", volume |-> 30,
                       channel |-> 901]),
            Len(h) + 1)

Result(h, ret, trace) == [heap |-> h, ret |-> ret, raised |-> NoException, trace |-> trace]

(* TV.is_enabled returns self.enable, Radio.is_enabled self.enabled *)
is_enabled(h, self) ==
    IF h[self].cls = "TV"
    THEN Result(h, h[self].enable, <<>>)
    ELSE Result(h, h[self].enabled, <<>>)

(* device.enable(): on a TV the name may no longer stand for the method *)
enable(h, self) ==
    IF h[self].cls = "TV"
    THEN IF h[self].enable # "method"
         THEN [heap |-> h, ret |-> "None", trace |-> <<>>,
               raised |-> TypeError("'bool' object is not callable")]
         ELSE Result([h EXCEPT ![self].enable = "True"], "None",
                     <<PrintEv(self, "TV is now ON")>>)
    ELSE Result([h EXCEPT ![self].enabled = "True"], "None",
                <<PrintEv(self, "Radio is now ON")>>)

(* device.disable() *)
disable(h, self) ==
    IF h[self].cls = "TV"
    THEN Result([h EXCEPT ![self].enable = "False"], "None",
                <<PrintEv(self, "TV is now OFF")>>)
    ELSE Result([h EXCEPT ![self].enabled = "False"], "None",
                <<PrintEv(self, "Radio is now OFF")>>)

set_volume_upper_only(h, self, val) ==
    LET volume == IF val < 100 THEN val ELSE 100
    IN  Result([h EXCEPT ![self].volume = volume], "None",
               <<PrintEv(self, IF h[self].cls = "TV"
                               THEN "TV Volume is " \o ToString(volume)
                               ELSE "Radio volume set to " \o ToString(volume))>>)

(* device.set_volume(val): max(0, min(100, val)) *)
set_volume(h, self, val) ==
    LET least == IF val < 100 THEN val ELSE 100
        volume == IF least > 0 THEN least ELSE 0
    IN  Result([h EXCEPT ![self].volume = volume], "None",
               <<PrintEv(self, IF h[self].cls = "TV"
                               THEN "TV Volume is " \o ToString(volume)
                               ELSE "Radio volume set to " \o ToString(volume))>>)

set_channel_unguarded(h, self, channel) ==
    Result([h EXCEPT ![self].channel = channel], "None",
           <<PrintEv(self, IF h[self].cls = "TV"
                           THEN "TV channel set to " \o ToString(channel)
                           ELSE "Radio frequency set to " \o ToString(channel \div 10)
                                    \o "." \o ToString(channel % 10) \o " MHz")>>)

(* device.set_channel(channel): assigned only if channel > 0 *)
set_channel(h, self, channel) ==
    LET new == IF channel > 0 THEN channel ELSE h[self].channel
    IN  Result([h EXCEPT ![self].channel = new], "None",
               <<PrintEv(self, IF h[self].cls = "TV"
                               THEN "TV channel set to " \o ToString(new)
                               ELSE "Radio frequency set to " \o ToString(new \div 10)
                                        \o "." \o ToString(new % 10) \o " MHz")>>)

(* One more channel: + 1 on the device's value (10 tenths on a Radio) *)
ChannelStep(h, self) == IF h[self].cls = "TV" THEN 1 ELSE 10

RemoteControl_turn_on(h, self) == enable(h, h[self].device)

RemoteControl_turn_off(h, self) == disable(h, h[self].device)

RemoteControl_volume_up(h, self) ==
    set_volume(h, h[self].device, h[h[self].device].volume + 1)

RemoteControl_volume_down(h, self) ==
    set_volume(h, h[self].device, h[h[self].device].volume - 1)

RemoteControl_channel_up(h, self) ==
    set_channel(h, h[self].device,
                h[h[self].device].channel + ChannelStep(h, h[self].device))

RemoteControl_channel_down(h, self) ==
    set_channel(h, h[self].device,
                h[h[self].device].channel - ChannelStep(h, h[self].device))

(* AdvancedRemote.mute; a RemoteControl has no such attribute *)
AdvancedRemote_mute(h, self) ==
    IF h[self].cls # "AdvancedRemote"
    THEN [heap |-> h, ret |-> "None", trace |-> <<>>,
          raised |-> AttributeError("'RemoteControl' object has no attribute 'mute'")]
    ELSE LET r == set_volume(h, h[self].device, 0)
         IN  Result(r.heap, "None",
                    r.trace \o <<PrintEv(self, h[h[self].device].cls \o " is Muted")>>)

Buttons ==
    {"turn_on", "turn_off", "volume_up", "volume_down", "channel_up",
     "channel_down", "mute"}

(* remote.<button>() *)
press(h, self, button) ==
    CASE button = "turn_on" -> RemoteControl_turn_on(h, self)
      [] button = "turn_off" -> RemoteControl_turn_off(h, self)
      [] button = "volume_up" -> RemoteControl_volume_up(h, self)
      [] button = "volume_down" -> RemoteControl_volume_down(h, self)
      [] button = "channel_up" -> RemoteControl_channel_up(h, self)
      [] button = "channel_down" -> RemoteControl_channel_down(h, self)
      [] button = "mute" -> AdvancedRemote_mute(h, self)

IsRemoteProgram == program = "remote"

(* The device as its constructor leaves it *)
Fresh(cls) == IF cls = "TV" THEN TV_init(<<>>).heap[1] ELSE Radio_init(<<>>).heap[1]

(* The values of volume and channel explored: within MaxSteps presses of    *)
(* the constructor's value, and, for the volume, of the ends 0 and 100; a   *)
(* press that asks for a channel of 0 or less is always explored            *)
InRange(h, self, field, delta) ==
    LET asked == h[self][field] + delta
        start == Fresh(h[self].cls)[field]
        unit == IF field = "volume" THEN 1 ELSE ChannelStep(h, self)
    IN  \/ asked - start <= MaxSteps * unit /\ start - asked <= MaxSteps * unit
        \/ field = "volume" /\ (asked <= MaxSteps \/ asked >= 100 - MaxSteps)
        \/ field = "channel" /\ asked <= 0

(* __main__: the if / elif / else on device, then client_helper's first     *)
(* statement: remote = RemoteControl(device) or AdvancedRemote(device)      *)
Remote_New ==
    /\ IsRemoteProgram
    /\ pc = "start"
    /\ IF input.device \in {"TV", "Radio"}
       THEN LET d == IF input.device = "TV" THEN TV_init(heap) ELSE Radio_init(heap)
            IN  /\ \E is_advanced_remote \in BOOLEAN :
                      heap' = Append(d.heap,
                                     [cls |-> IF is_advanced_remote THEN "AdvancedRemote"
                                              ELSE "RemoteControl",
                                      device |-> d.ret])
                /\ locals' = [device |-> d.ret, remote |-> d.ret + 1, power |-> "none"]
                /\ pc' = "main"
                /\ raised' = raised
       ELSE /\ raised' = ValueError("Invalid Device")
            /\ pc' = "done"
            /\ UNCHANGED <<heap, locals>>
    /\ UNCHANGED <<program, call, result, console, input, returned>>

(* remote.turn_on() / turn_off() / volume_up() / ... / mute(); locals.power *)
(* keeps which of turn_on and turn_off was called last                      *)
Remote_Press ==
    /\ IsRemoteProgram
    /\ pc = "main"
    /\ raised = NoException
    /\ \E button \in Buttons :
          /\ button = "mute" => heap[locals.remote].cls = "AdvancedRemote"
          /\ button = "volume_up" => InRange(heap, locals.device, "volume", 1)
          /\ button = "volume_down" => InRange(heap, locals.device, "volume", -1)
          /\ button = "channel_up" =>
                InRange(heap, locals.device, "channel", ChannelStep(heap, locals.device))
          /\ button = "channel_down" =>
                InRange(heap, locals.device, "channel", -ChannelStep(heap, locals.device))
          /\ LET r == press(heap, locals.remote, button)
             IN  /\ heap' = r.heap
                 /\ raised' = r.raised
                 /\ call' = [method |-> button, self |-> locals.remote, message |-> ""]
                 /\ result' = [ret |-> r.ret, trace |-> r.trace]
                 /\ console' = Printed(r.trace)
          /\ locals' = [locals EXCEPT !.power =
                            IF button = "turn_on" THEN "on"
                            ELSE IF button = "turn_off" THEN "off" ELSE @]
    /\ UNCHANGED <<program, input, pc, returned>>

(* device.is_enabled() *)
Remote_IsEnabled ==
    /\ IsRemoteProgram
    /\ pc = "main"
    /\ raised = NoException
    /\ LET r == is_enabled(heap, locals.device)
       IN  /\ call' = [method |-> "is_enabled", self |-> locals.device, message |-> ""]
           /\ result' = [ret |-> r.ret, trace |-> r.trace]
           /\ console' = Printed(r.trace)
    /\ UNCHANGED <<program, heap, input, pc, locals, raised, returned>>

(* device.set_volume(val) / device.set_channel(channel) with any integer *)
Remote_Set ==
    /\ IsRemoteProgram
    /\ pc = "main"
    /\ raised = NoException
    /\ \E method \in {"set_volume", "set_channel"} :
       \E val \in IF method = "set_volume" THEN {-1, 0, 100, 101} ELSE {-1, 0, 2} :
          LET r == IF method = "set_volume"
                   THEN set_volume(heap, locals.device, val)
                   ELSE set_channel(heap, locals.device,
                                    val * ChannelStep(heap, locals.device))
          IN  /\ heap' = r.heap
              /\ call' = [method |-> method, self |-> locals.device, message |-> val]
              /\ result' = [ret |-> r.ret, trace |-> r.trace]
              /\ console' = Printed(r.trace)
    /\ UNCHANGED <<program, input, pc, locals, raised, returned>>

(***************************************************************************)
(* The programs of the prototypes, the GUI factories, the composites and   *)
(* the remote controls                                                     *)
(***************************************************************************)
PatternInputs(p) ==
    IF p = "game" THEN {[name |-> n] : n \in {"Hero", "Mage"}}
    ELSE IF p = "document"
    THEN {[title |-> "First Book", author |-> "Asha", content |-> "Once upon a time"]}
    ELSE IF p = "gui" THEN {[platform |-> "mac"]}
    ELSE IF p = "remote" THEN {[device |-> d] : d \in {"TV", "Radio", "DVD"}}
    ELSE {NoInput}

InitPatterns ==
    /\ program \in {"game", "document", "gui", "organization", "filesystem", "remote"}
    /\ heap = <<>>
    /\ call = NoCall
    /\ result = NoResult
    /\ console = <<>>
    /\ input \in PatternInputs(program)
    /\ pc = "start"
    /\ locals = <<>>
    /\ raised = NoException
    /\ returned = 0

NextPatterns ==
    \/ Game_NewPlayer
    \/ Game_Clone
    \/ Game_Assign
    \/ Game_Print
    \/ Document_New
    \/ Document_Helper
    \/ Document_Assign
    \/ Document_Print
    \/ Gui_NewFactory
    \/ Gui_RenderUi
    \/ Composite_New
    \/ Composite_Add
    \/ Composite_Remove
    \/ Composite_Show
    \/ Remote_New
    \/ Remote_Press
    \/ Remote_IsEnabled
    \/ Remote_Set

PatternsSpec == InitPatterns /\ [][NextPatterns]_vars

(***************************************************************************)
(* Properties of the prototypes and of the GUI factories                   *)
(***************************************************************************)
IsPrototypeProgram == program \in {"game", "document"}

(* obj is as before the step except for the field assigned *)
OnlyFieldChanged(obj, field, value) ==
    /\ heap'[obj][field] = value
    /\ DOMAIN heap'[obj] = DOMAIN heap[obj]
    /\ \A f \in DOMAIN heap[obj] \ {field} : heap'[obj][f] = heap[obj][f]

(* C15: c = p.clone() is a new object with p's fields; an assignment to a   *)
(* field of one object changes that field of that object and nothing of any *)
(* other object, be it a clone or the original; client_helper returns a new *)
(* object with the new title, the new author and content where they are not *)
(* None and the original's otherwise, and leaves the original as it was.    *)
C15_CloneIsIndependent ==
    [][(IsPrototypeProgram /\ pc = "main" /\ (heap' # heap \/ call' # call)) =>
          /\ \A obj \in DOMAIN heap \ {call'.self} : heap'[obj] = heap[obj]
          /\ call'.method = "clone" =>
                /\ returned' = Len(heap) + 1
                /\ DOMAIN heap' = 1..returned'
                /\ heap'[returned'] = heap[call'.self]
                /\ heap'[call'.self] = heap[call'.self]
          /\ call'.method = "setattr" =>
                /\ DOMAIN heap' = DOMAIN heap
                /\ OnlyFieldChanged(call'.self, call'.message.field, call'.message.value)
          /\ call'.method = "client_helper" =>
                LET a == call'.message
                    p == heap[call'.self]
                    c == heap'[returned']
                IN  /\ returned' = Len(heap) + 1
                    /\ DOMAIN heap' = 1..returned'
                    /\ heap'[call'.self] = p
                    /\ c.cls = p.cls
                    /\ c.title = a.new_title
                    /\ c.author = IF a.new_author = None THEN p.author
                                  ELSE a.new_author[1]
                    /\ c.content = IF a.new_content = None THEN p.content
                                   ELSE a.new_content[1]]_vars

(* A clone made by client_helper with no new author and a new content,     *)
(* after which the original was assigned another author                   *)
C15_Witness ==
    /\ program = "document"
    /\ call.method = "setattr"
    /\ call.self = 1
    /\ call.message.field = "author"
    /\ Len(heap) >= 2
    /\ heap[2].author = input.author
    /\ heap[2].content = "The end"
    /\ heap[1].author # input.author
    /\ heap[1].content = input.content

GuiFamily(factory_cls) ==
    IF factory_cls = "MacFactory"
    THEN [button |-> "MacButton", checkbox |-> "MacCheckBox",
          lines |-> <<"Rendering Mac Button", "Rendering Mac Check Box">>]
    ELSE [button |-> "WindowsButton", checkbox |-> "WindowsCheckBox",
          lines |-> <<"Rendering Windows Button", "Rendering Windows Check Box">>]

(* C16: the button and the checkbox one render_ui(factory) call creates are *)
(* of the factory's family, and the button is rendered before the checkbox. *)
C16_OneFamilyPerRenderUi ==
    (program = "gui" /\ call.method = "render_ui") =>
        LET family == GuiFamily(heap[call.self].cls)
        IN  /\ heap[locals.button].cls = family.button
            /\ heap[locals.checkbox].cls = family.checkbox
            /\ Printed(result.trace) = family.lines
            /\ result.trace[1] = CallEv(locals.button, "render")
            /\ result.trace[Len(result.trace)] = ReturnEv(locals.checkbox, "render")
            /\ Len(result.trace) = 6

(* render_ui was called on a WindowsFactory made after a MacFactory *)
C16_Witness ==
    /\ program = "gui"
    /\ call.method = "render_ui"
    /\ heap[call.self].cls = "WindowsFactory"
    /\ heap[1].cls = "MacFactory"
    /\ Len(console) = 2

(***************************************************************************)
(* Properties of the composites                                            *)
(***************************************************************************)
(* The nodes in the lists of the nodes of S *)
ChildrenOf(h, S) == UNION {{Items(h, n)[i] : i \in DOMAIN Items(h, n)} : n \in S}

(* The nodes reached from those of S in at most k steps, one at least *)
RECURSIVE Below(_, _, _)
Below(h, S, k) ==
    IF k = 0 THEN {} ELSE ChildrenOf(h, S) \cup Below(h, ChildrenOf(h, S), k - 1)

Descendants(h, n) == Below(h, {n}, Len(h))

(* The list entries that hold n *)
ParentLinks(h, n) ==
    UNION {{<<p, i>> : i \in {j \in DOMAIN Items(h, p) : Items(h, p)[j] = n}} :
               p \in DOMAIN h}

(* C17: after any sequence of addEmployee / removeEmployee or add / remove  *)
(* no composite is its own descendant and no node has two parents, and      *)
(* showDetails() on a node terminates and prints each node of its subtree   *)
(* exactly once.                                                            *)
C17_CompositeIsATree ==
    IsCompositeProgram =>
        /\ \A n \in DOMAIN heap : n \notin Descendants(heap, n)
        /\ \A n \in DOMAIN heap : Cardinality(ParentLinks(heap, n)) <= 1
        /\ call.method = "showDetails" =>
              /\ raised = NoException
              /\ \A n \in DOMAIN heap :
                    Count(result.trace, CallEv(n, "showDetails"))
                        = IF n \in {call.self} \cup Descendants(heap, call.self)
                          THEN 1 ELSE 0

(***************************************************************************)
(* Properties of the remote controls                                       *)
(***************************************************************************)
(* C20: every sequence of turn_on / turn_off on the remote of a TV runs     *)
(* without error, and is_enabled() is False at first, True when turn_on was *)
(* called last and False when turn_off was, as it is for a Radio.           *)
C20_PowerFollowsLastCall ==
    (IsRemoteProgram /\ pc = "main") =>
        /\ raised = NoException
        /\ is_enabled(heap, locals.device).ret
               = IF locals.power = "on" THEN "True" ELSE "False"

(* The fields of the device other than field are as before the step *)
OtherFieldsKept(device, field) ==
    /\ DOMAIN heap'[device] = DOMAIN heap[device]
    /\ \A f \in DOMAIN heap[device] \ {field} : heap'[device][f] = heap[device][f]

(* C21: the volume of a TV or Radio is always in 0..100; volume_up adds 1   *)
(* except at 100, volume_down takes 1 off except at 0, where they leave it  *)
(* as it is; set_volume(v) leaves v cut to 0..100; mute leaves 0; none of   *)
(* them changes the channel or the enabled flag.                            *)
C21_VolumeStaysInRange ==
    [][(IsRemoteProgram /\ pc = "main") =>
          LET device == locals.device
              volume == heap[device].volume
              after == heap'[device].volume
          IN  /\ volume \in 0..100 /\ after \in 0..100
              /\ call'.method = "volume_up" =>
                    /\ after = IF volume = 100 THEN 100 ELSE volume + 1
                    /\ OtherFieldsKept(device, "volume")
              /\ call'.method = "volume_down" =>
                    /\ after = IF volume = 0 THEN 0 ELSE volume - 1
                    /\ OtherFieldsKept(device, "volume")
              /\ call'.method = "mute" =>
                    /\ after = 0
                    /\ OtherFieldsKept(device, "volume")
              /\ call'.method = "set_volume" =>
                    /\ after = IF call'.message < 0 THEN 0
                               ELSE IF call'.message > 100 THEN 100
                               ELSE call'.message
                    /\ OtherFieldsKept(device, "volume")]_vars

(* volume_down was pressed on a TV whose volume was 0, after it had been    *)
(* turned on                                                                *)
C21_Witness ==
    /\ IsRemoteProgram
    /\ pc = "main"
    /\ heap[locals.device].cls = "TV"
    /\ heap[locals.device].enable = "True"
    /\ call.method = "volume_down"
    /\ heap[locals.device].volume = 0
    /\ console = <<"TV Volume is 0">>

(* C22: the channel of a TV is always 1 or more; channel_up adds 1,         *)
(* channel_down takes 1 off except at channel 1, where it leaves the        *)
(* channel as it is, and so does set_channel(c) with c <= 0; none of them   *)
(* changes the volume or the enabled flag.                                  *)
C22_TVChannelAtLeastOne ==
    [][(IsRemoteProgram /\ pc = "main" /\ heap[locals.device].cls = "TV") =>
          LET device == locals.device
              channel == heap[device].channel
              after == heap'[device].channel
          IN  /\ channel >= 1 /\ after >= 1
              /\ call'.method = "channel_up" =>
                    /\ after = channel + 1
                    /\ OtherFieldsKept(device, "channel")
              /\ call'.method = "channel_down" =>
                    /\ after = IF channel = 1 THEN 1 ELSE channel - 1
                    /\ OtherFieldsKept(device, "channel")
              /\ call'.method = "set_channel" =>
                    /\ after = IF call'.message <= 0 THEN channel ELSE call'.message
                    /\ OtherFieldsKept(device, "channel")]_vars

(* channel_down was pressed on a TV on channel 1, after the volume had been *)
(* changed                                                                  *)
C22_Witness ==
    /\ IsRemoteProgram
    /\ pc = "main"
    /\ heap[locals.device].cls = "TV"
    /\ heap[locals.device].volume # 50
    /\ call.method = "channel_down"
    /\ heap[locals.device].channel = 1
    /\ console = <<"TV channel set to 1">>

====
